---- MODULE Spec2Model ----
(***************************************************************************)
(* A model of dynspv_generator.py: the generator that turns the SPIR-V     *)
(* grammar (operand kinds and instructions) into one C++ builder function  *)
(* per instruction.  Python strings are TLA+ strings; a character is a     *)
(* string of length one.  A Python exception is a result record with       *)
(* ok = FALSE that carries the exception's type.                           *)
(***************************************************************************)
EXTENDS Integers, Sequences, FiniteSets, TLC

VARIABLES
    operands,      \* the operand-kind catalog (module global `operands`)
    pc,            \* position of the run / of the function being stepped
    operand,       \* the operand handed to get_cpp_param_name
    name,          \* result of get_cpp_param_name(operand)
    rename,        \* result of get_cpp_param_name on its own result
    instruction,   \* the instruction handed to get_instruction_code
    cpp_params,    \* local cpp_params of get_instruction_code
    function_text, \* the text get_instruction_code returns
    operand_kind,  \* the kind handed to get_base_cpp_type
    cpp_type,      \* result of get_base_cpp_type(operand_kind)
    grammar,       \* spirv_grammar["instructions"], as loaded
    pending,       \* sorted instructions not yet consumed by the lazy map
    generated,     \* function texts produced so far by the join
    file           \* contents of include/dynspv.hpp

vars == <<operands, pc, operand, name, rename, instruction, cpp_params,
          function_text, operand_kind, cpp_type, grammar, pending,
          generated, file>>

----------------------------------------------------------------------------
(* Bounds of the model. *)

MaxPieces == 3
MaxOperands == 4
MaxBases == 2
MaxInstructions == 2

----------------------------------------------------------------------------
(* Results: a value, or a raised exception. *)

Ok(v) == [ok |-> TRUE, val |-> v]
Raise(e) == [ok |-> FALSE, val |-> e]

\* an element of a set, the only one of a one-element set
the(S) == CHOOSE x \in S : TRUE

----------------------------------------------------------------------------
(* Characters and the str methods the generator uses. *)

LowerLetters == "abcdefghijklmnopqrstuvwxyz"
UpperLetters == "ABCDEFGHIJKLMNOPQRSTUVWXYZ"
DigitChars == "0123456789"

\* s[i-1:j] of Python, for 1 <= i: the slice is cut at the end of s
Slice(s, i, j) ==
    IF i > j \/ i > Len(s) THEN ""
    ELSE SubSeq(s, i, IF j > Len(s) THEN Len(s) ELSE j)

Ch(s, i) == Slice(s, i, i)
CharsOf(s) == {Ch(s, i) : i \in 1..Len(s)}

LowerSet == CharsOf(LowerLetters)
UpperSet == CharsOf(UpperLetters)
DigitSet == CharsOf(DigitChars)
\* \w of the re module, on the ASCII characters of the grammar
WordSet == LowerSet \cup UpperSet \cup DigitSet \cup {"_"}
\* [A-Za-z_, ] of the comma-joined pattern
GroupSet == LowerSet \cup UpperSet \cup {"_", ",", " "}
\* [\w ] of the multi-line pattern
LabelSet == WordSet \cup {" "}
WhiteSet == {" ", "\n"}

UpperOf == [c \in LowerSet |->
              Ch(UpperLetters, CHOOSE i \in 1..26 : Ch(LowerLetters, i) = c)]
LowerOf == [c \in UpperSet |->
              Ch(LowerLetters, CHOOSE i \in 1..26 : Ch(UpperLetters, i) = c)]

\* str.upper / str.lower
upper(s) == IF s \in LowerSet THEN UpperOf[s] ELSE s
lower(s) == IF s \in UpperSet THEN LowerOf[s] ELSE s

\* str.isupper: some cased character, and no lower-case one
isupper(s) ==
    /\ \E i \in 1..Len(s) : Ch(s, i) \in UpperSet
    /\ \A i \in 1..Len(s) : Ch(s, i) \notin LowerSet

\* the least element of a set of numbers, 0 for the empty set
least(S) == IF S = {} THEN 0 ELSE CHOOSE i \in S : \A j \in S : i <= j

\* the greatest element of a set of numbers, 0 for the empty set
greatest(S) == IF S = {} THEN 0 ELSE CHOOSE i \in S : \A j \in S : i >= j

\* `sub in s`
Contains(s, sub) ==
    \E i \in 1..(Len(s) - Len(sub) + 1) : Slice(s, i, i + Len(sub) - 1) = sub

\* s.startswith(prefix)
startswith(s, prefix) ==
    Len(s) >= Len(prefix) /\ Slice(s, 1, Len(prefix)) = prefix

\* the list a map or comprehension gives once it is consumed
list(f) == f \o <<>>

RECURSIVE join(_, _)
\* sep.join(parts)
join(sep, parts) ==
    IF parts = <<>> THEN ""
    ELSE IF Len(parts) = 1 THEN parts[1]
    ELSE parts[1] \o sep \o join(sep, Tail(parts))

RECURSIVE split(_)
\* the piece before the first space, at index i, then the pieces of the rest
split_at(s, i) ==
    IF i = 0 THEN <<s>>
    ELSE <<Slice(s, 1, i - 1)>> \o split(Slice(s, i + 1, Len(s)))

\* s.split(" "): the pieces between single spaces, empty pieces kept
split(s) == split_at(s, least({k \in 1..Len(s) : Ch(s, k) = " "}))

RECURSIVE strip(_)
\* str.strip
strip(s) ==
    IF s = "" THEN s
    ELSE IF Ch(s, 1) \in WhiteSet THEN strip(Slice(s, 2, Len(s)))
    ELSE IF Ch(s, Len(s)) \in WhiteSet THEN strip(Slice(s, 1, Len(s) - 1))
    ELSE s

RECURSIVE str(_)
\* the decimal text an f-string gives a non-negative int
str(n) ==
    IF n < 10 THEN Ch(DigitChars, n + 1)
    ELSE str(n \div 10) \o Ch(DigitChars, (n % 10) + 1)

----------------------------------------------------------------------------
(* The regular expressions of get_cpp_param_name. *)

RECURSIVE RunEnd(_, _, _)
\* last index of the longest run of characters of `class` that starts at i
\* (i - 1 when the run is empty): what a greedy class* consumes
RunEnd(s, i, class) ==
    IF i <= Len(s) /\ Ch(s, i) \in class THEN RunEnd(s, i + 1, class)
    ELSE i - 1

\* whether "', " follows the text at index e
label_closed(s, e) == Slice(s, e + 1, e + 3) = "', "

\* re.search(r"'([\w ]*)', ", s): the start of the leftmost match, 0 if none
search_label(s) ==
    least({i \in 1..Len(s) :
              /\ Ch(s, i) = "'"
              /\ label_closed(s, RunEnd(s, i + 1, LabelSet))})

\* .group(1) of the match that starts at i
label_group(s, i) == Slice(s, i + 1, RunEnd(s, i + 1, LabelSet))

RECURSIVE sub_space_digit(_)
\* re.sub(r" \d", "", s)
sub_space_digit(s) ==
    IF Len(s) < 2 THEN s
    ELSE IF Ch(s, 1) = " " /\ Ch(s, 2) \in DigitSet
         THEN sub_space_digit(Slice(s, 3, Len(s)))
    ELSE Ch(s, 1) \o sub_space_digit(Slice(s, 2, Len(s)))

\* the class run of the comma-joined pattern ends at e: it holds a character
\* and then the space that " \.\.\.'" starts with
group_closed(s, e) ==
    /\ e >= 3
    /\ Ch(s, e) = " "
    /\ Slice(s, e + 1, e + 4) = "...'"

\* re.match(r"'[A-Za-z_, ]+ \.\.\.'", s) is not None
match_group(s) ==
    /\ Len(s) >= 1 /\ Ch(s, 1) = "'"
    /\ group_closed(s, RunEnd(s, 2, GroupSet))

RECURSIVE findall_words(_)
\* the word that ends at e, then the words of the rest
word_then_rest(s, e) ==
    <<Slice(s, 1, e)>> \o findall_words(Slice(s, e + 1, Len(s)))

\* re.findall(r"([\w]+)", s)
findall_words(s) ==
    IF s = "" THEN <<>>
    ELSE IF Ch(s, 1) \notin WordSet THEN findall_words(Slice(s, 2, Len(s)))
    ELSE word_then_rest(s, RunEnd(s, 1, WordSet))

RECURSIVE sub_digit_mutant(_)
\* the digits at the end of the token removed, the others kept
sub_digit_mutant(s) ==
    IF s # "" /\ Ch(s, Len(s)) \in DigitSet
    THEN sub_digit_mutant(Slice(s, 1, Len(s) - 1))
    ELSE s

RECURSIVE sub_digit(_)
\* re.sub(r"\d", "", s)
sub_digit(s) ==
    IF s = "" THEN s
    ELSE IF Ch(s, 1) \in DigitSet THEN sub_digit(Slice(s, 2, Len(s)))
    ELSE Ch(s, 1) \o sub_digit(Slice(s, 2, Len(s)))

RECURSIVE sub_nonword(_)
\* re.sub(r"[^\w]", "", s)
sub_nonword(s) ==
    IF s = "" THEN s
    ELSE IF Ch(s, 1) \notin WordSet THEN sub_nonword(Slice(s, 2, Len(s)))
    ELSE Ch(s, 1) \o sub_nonword(Slice(s, 2, Len(s)))

----------------------------------------------------------------------------
(* Name derivation. *)

reserved_cpp_keywords ==
    {"asm", "auto", "break", "case", "catch", "char", "class", "const",
     "continue", "default", "delete", "do", "double", "else", "enum",
     "extern", "float", "for", "friend", "goto", "if", "inline", "int",
     "long", "new", "operator", "private", "protected", "public",
     "register", "return", "short", "signed", "sizeof", "static", "struct",
     "switch", "template", "this", "throw", "try", "typedef", "union",
     "unsigned", "virtual", "void", "volatile", "while"}

\* the first letter left as it is
decapitalize_mutant(s) == s

decapitalize(s) ==
    IF isupper(s) THEN s
    ELSE lower(Slice(s, 1, 1)) \o Slice(s, 2, Len(s))

\* every letter raised, not only the first
capitalize_mutant(s) ==
    join("", list([i \in 1..Len(s) |-> upper(Ch(s, i))]))

capitalize(s) == upper(Slice(s, 1, 1)) \o Slice(s, 2, Len(s))

\* lines 90-92, i the start of the match of line 90, 0 when it is None
grouped_label(n, i) ==
    IF i = 0 THEN Raise("AttributeError")
    ELSE Ok(sub_space_digit(label_group(n, i)) \o "s")

\* lines 89-92: the multi-line grouped name
multi_line(n) ==
    IF ~Contains(n, "\n") THEN Ok(n) ELSE grouped_label(n, search_label(n))

\* lines 93-96: the quoted comma-joined ellipsis group
comma_joined(n) ==
    IF match_group(n) THEN join(" ", findall_words(n)) \o "s" ELSE n

\* lines 99-101: the set of the tokens, each without its digits
base_tokens(tokens) == {strip(sub_digit(tokens[i])) : i \in DOMAIN tokens}

\* lines 102-103
single_base(temp_name) ==
    IF Cardinality(temp_name) # 1 THEN Raise("AssertionError")
    ELSE Ok(the(temp_name) \o "s")

\* lines 97-103: the bare ellipsis
bare_ellipsis(n) ==
    IF ~Contains(n, "...") THEN Ok(n)
    ELSE single_base(base_tokens(findall_words(n)))

\* lines 105-106
capitalize_all(words) ==
    join("", list([i \in DOMAIN words |-> capitalize(words[i])]))

\* lines 104-107: camel-case join, then only word characters kept
camel_case(n) == sub_nonword(capitalize_all(split(n)))

\* lines 111-112
escape_keyword(n) == IF n \in reserved_cpp_keywords THEN "_" \o n ELSE n

\* lines 104-114, on the name lines 89-103 leave
plain_name(grouped) ==
    IF ~grouped.ok THEN grouped
    ELSE Ok(escape_keyword(decapitalize(camel_case(grouped.val))))

\* lines 93-103, on the name lines 89-92 leave
ellipsis_name(grouped) ==
    IF ~grouped.ok THEN grouped
    ELSE bare_ellipsis(comma_joined(grouped.val))

get_cpp_param_name(op) ==
    IF "name" \notin DOMAIN op THEN Ok(decapitalize(op.kind))
    ELSE plain_name(ellipsis_name(multi_line(op.name)))

----------------------------------------------------------------------------
(* Type resolution. *)

literal_dict ==
    [LiteralInteger |-> "uint32_t",
     LiteralString |-> "std::string",
     LiteralFloat |-> "float",
     LiteralContextDependentNumber |-> "spvConstant auto",
     LiteralExtInstInteger |-> "uint32_t",
     LiteralSpecConstantOpInteger |-> "uint32_t"]

\* the exception of the first element that raises, while a lazy map is
\* consumed in order
first_raise(results) ==
    results[CHOOSE i \in DOMAIN results :
                ~results[i].ok /\ \A j \in 1..(i - 1) : results[j].ok]

all_ok(results) == \A i \in DOMAIN results : results[i].ok

RECURSIVE get_base_cpp_type(_)

\* the tuple over the resolved bases, or what resolving them raised
tuple_of(resolved) ==
    IF ~all_ok(resolved) THEN first_raise(resolved)
    ELSE Ok("std::tuple<"
            \o join(", ", list([i \in DOMAIN resolved |-> resolved[i].val]))
            \o ">")

\* lines 55-56: each base looked up in the catalog, then resolved
resolve_bases(bases) ==
    list([i \in DOMAIN bases |->
             IF bases[i] \notin DOMAIN operands THEN Raise("KeyError")
             ELSE get_base_cpp_type(operands[bases[i]].kind)])

\* the bases joined as the catalog names them, line 56 left out
tuple_type_mutant(bases) ==
    IF \E i \in DOMAIN bases : bases[i] \notin DOMAIN operands
    THEN Raise("KeyError")
    ELSE Ok("std::tuple<" \o join(", ", bases) \o ">")

\* lines 54-58: the Composite case
tuple_type(bases) == tuple_of(resolve_bases(bases))

get_base_cpp_type(kind) ==
    IF kind \notin DOMAIN operands THEN Raise("KeyError")
    ELSE LET operand_info == operands[kind]
             operand_category == operand_info.category
         IN CASE operand_category = "Id" -> Ok(kind)
              [] operand_category = "Literal" ->
                    IF kind \in DOMAIN literal_dict THEN Ok(literal_dict[kind])
                    ELSE Raise("KeyError")
              [] operand_category = "ValueEnum" -> Ok("spv::" \o kind)
              [] operand_category = "BitEnum" -> Ok("spv::" \o kind \o "Mask")
              [] operand_category = "Composite" -> tuple_type(operand_info.bases)
              [] OTHER -> Raise("NotImplementedError")

\* lines 70-80, on the base type line 68 gives
apply_quantifier(op, base) ==
    IF ~base.ok THEN base
    ELSE IF "quantifier" \notin DOMAIN op THEN base
    ELSE CASE op.quantifier = "?" -> Ok("std::optional<" \o base.val \o ">")
           [] op.quantifier = "*" -> Ok("std::vector<" \o base.val \o ">")
           [] OTHER -> Raise("NotImplementedError")

get_cpp_type(op) == apply_quantifier(op, get_base_cpp_type(op.kind))

\* the dict of lines 118-122; the first value that raises ends it
param_of(t, n) ==
    IF ~t.ok THEN t
    ELSE IF ~n.ok THEN n
    ELSE Ok([type |-> t.val, name |-> n.val, default_value |-> ""])

\* the dict literal evaluates "type" before "name"
get_cpp_param(op) == param_of(get_cpp_type(op), get_cpp_param_name(op))

----------------------------------------------------------------------------
(* Instruction emission. *)

is_simple_type(t) ==
    /\ t # "std::string" /\ t # "spvConstant auto"
    /\ ~startswith(t, "std::optional")
    /\ ~startswith(t, "std::vector")
    /\ ~startswith(t, "std::tuple")

\* the names of a list of parameters
names_of(params) == list([i \in DOMAIN params |-> params[i].name])

\* lines 147-148
count_call(non_simple_types_code) ==
    IF Len(non_simple_types_code) > 0
    THEN "countOperandsWord(wordCount," \o non_simple_types_code \o ");"
    ELSE non_simple_types_code

\* lines 150-151
word_count_text(word_count, non_simple_types_code) ==
    "uint16_t wordCount = " \o str(word_count) \o ";\n    "
    \o non_simple_types_code

get_word_count_code(params) ==
    word_count_text(
        1 + Len(SelectSeq(params, LAMBDA x : is_simple_type(x.type))),
        count_call(join(", ", names_of(
            SelectSeq(params, LAMBDA x : ~is_simple_type(x.type))))))

get_instruction_write_code(params) ==
    "writeWords(" \o join(", ", names_of(params)) \o ");"

\* the values of a consumed map, or the exception that ended it
values_of(results) ==
    IF ~all_ok(results) THEN first_raise(results)
    ELSE Ok(list([i \in DOMAIN results |-> results[i].val]))

\* lines 167-168
params_of(ops) == values_of(list([i \in DOMAIN ops |-> get_cpp_param(ops[i])]))

\* lines 162-168: one parameter per operand, in declared order
build_params(instr) ==
    params_of(IF "operands" \in DOMAIN instr THEN instr.operands ELSE <<>>)

\* lines 175-180: every parameter now called param_name gets the next number
rename_key(params, param_name) ==
    list([i \in DOMAIN params |->
             IF params[i].name = param_name
             THEN [params[i] EXCEPT !.name =
                      param_name \o str(Cardinality({j \in 1..i :
                                            params[j].name = param_name}))]
             ELSE params[i]])

RECURSIVE dedup_from(_, _, _)
\* lines 172-180: the Counter's keys in insertion order, k the position of
\* the key's first occurrence among the names counted at line 171
dedup_from(params, counted, k) ==
    IF k > Len(counted) THEN params
    ELSE IF /\ \A j \in 1..(k - 1) : counted[j] # counted[k]
            /\ Cardinality({j \in DOMAIN counted :
                               counted[j] = counted[k]}) # 1
         THEN dedup_from(rename_key(params, counted[k]), counted, k + 1)
    ELSE dedup_from(params, counted, k + 1)

\* lines 170-180
deduplicate(params) == dedup_from(params, names_of(params), 1)

has_quantifier_type(t) ==
    startswith(t, "std::optional") \/ startswith(t, "std::vector")

RECURSIVE defaults_from_mutant(_, _)
\* the scan goes on past a parameter that is neither optional nor repeated
defaults_from_mutant(params, i) ==
    IF i = 0 THEN params
    ELSE IF ~has_quantifier_type(params[i].type)
         THEN defaults_from_mutant(params, i - 1)
    ELSE defaults_from_mutant(
             [params EXCEPT ![i].default_value = " = {}"], i - 1)

RECURSIVE defaults_from(_, _)
\* lines 182-186: from the last parameter back, until the break
defaults_from(params, i) ==
    IF i = 0 THEN params
    ELSE IF ~has_quantifier_type(params[i].type) THEN params
    ELSE defaults_from([params EXCEPT ![i].default_value = " = {}"], i - 1)

assign_defaults(params) == defaults_from(params, Len(params))

\* the match from i to j replaced; no match when i or j is 0
sub_span(t, i, j) ==
    IF i = 0 \/ j = 0 THEN t
    ELSE Slice(t, 1, i - 1) \o "const " \o Slice(t, i, j) \o "&"
         \o Slice(t, j + 1, Len(t))

\* the match starts at i: the greedy (.*) runs to the last ">" of the text
sub_between(t, i, head) ==
    IF i = 0 THEN t
    ELSE sub_span(t, i, greatest({j \in (i + Len(head))..Len(t) :
                                    Ch(t, j) = ">"}))

\* re.sub(r"<head>(.*)>", r"const <head>\1>&", t), head the text before (.*)
sub_const_ref(t, head) ==
    sub_between(t, least({i \in 1..Len(t) :
                             Slice(t, i, i + Len(head) - 1) = head}), head)

\* lines 191-192
string_ref(t) == IF t = "std::string" THEN "const std::string&" ELSE t

\* lines 193-195
vector_ref(t) ==
    IF startswith(t, "std::vector") THEN sub_const_ref(t, "std::vector<")
    ELSE t

\* lines 196-198
tuple_ref(t) ==
    IF startswith(t, "std::tuple") THEN sub_const_ref(t, "std::tuple<")
    ELSE t

get_param_def(function_param) ==
    tuple_ref(vector_ref(string_ref(function_param.type)))
    \o " " \o function_param.name \o function_param.default_value

\* lines 188-215: the text of the function, from the finished parameters
\* lines 203-206
function_params_of(params) ==
    (IF Len(params) > 1 THEN "\n" ELSE "")
    \o join(",\n", list([i \in DOMAIN params |-> get_param_def(params[i])]))

render_function(instr, params) ==
    "\n    void " \o instr.opname \o "(" \o function_params_of(params)
    \o ")\n    {\n    "
    \o get_word_count_code(params)
    \o "\n\n    writeWord(spv::Op::" \o instr.opname \o ", wordCount);\n    "
    \o get_instruction_write_code(params) \o "\n    }"

\* lines 170-215, on what lines 162-168 built or raised
emit_built(instr, built) ==
    IF ~built.ok THEN built
    ELSE Ok(render_function(instr, assign_defaults(deduplicate(built.val))))

get_instruction_code(instr) == emit_built(instr, build_params(instr))

----------------------------------------------------------------------------
(* The grammar the name, emission and run specifications read. *)

Catalog ==
    ("IdRef" :> [kind |-> "IdRef", category |-> "Id"])
    @@ ("IdResult" :> [kind |-> "IdResult", category |-> "Id"])
    @@ ("LiteralInteger" :> [kind |-> "LiteralInteger", category |-> "Literal"])
    @@ ("LiteralString" :> [kind |-> "LiteralString", category |-> "Literal"])
    @@ ("LiteralContextDependentNumber" :>
           [kind |-> "LiteralContextDependentNumber", category |-> "Literal"])
    @@ ("LiteralUnknown" :> [kind |-> "LiteralUnknown", category |-> "Literal"])
    @@ ("StorageClass" :> [kind |-> "StorageClass", category |-> "ValueEnum"])
    @@ ("ImageOperands" :> [kind |-> "ImageOperands", category |-> "BitEnum"])
    @@ ("PairLiteralIntegerIdRef" :>
           [kind |-> "PairLiteralIntegerIdRef", category |-> "Composite",
            bases |-> <<"LiteralInteger", "IdRef">>])
    @@ ("Opaque" :> [kind |-> "Opaque", category |-> "Handle"])

\* every sequence over S of length at most n
SeqsUpTo(S, n) == UNION {[1..k -> S] : k \in 0..n}

----------------------------------------------------------------------------
(* Name derivation, stepped: get_cpp_param_name on an operand of the       *)
(* grammar, then on an operand named by the result.                        *)

\* the fragments raw names are put together from
Pieces == {"a", "B", "1", " ", "_", "...", "'", "', ", "\n", "do", "thi"}

RECURSIVE PieceStrings(_)
PieceStrings(n) ==
    IF n = 0 THEN {""}
    ELSE LET shorter == PieceStrings(n - 1)
         IN shorter \cup {s \o p : s \in shorter, p \in Pieces}

\* names as the SPIR-V grammar writes them, and short ones of the same shapes
GrammarNames ==
    {"'Operand 1', +\n'Operand 2', +\n...",
     "'Member 0 type', +\n'member 1 type', +\n...",
     "'Variable, Parent, ...'",
     "'Operand 1', 'Operand 2', ...",
     "'Image Operands'", "'D~ref~'", "'Target'", "Do", "Class", "x y",
     "a1 a2 ...", "a1b a2b ...", "a b ...", "Xi0 Xi1 ..."}

RawNames == GrammarNames \cup PieceStrings(MaxPieces)

NameKinds == {"IdRef", "LiteralInteger", "StorageClass", "Class", "ID"}

NameOperands ==
    {[kind |-> k] : k \in NameKinds}
    \cup {[kind |-> "IdRef", name |-> n] : n \in RawNames}

NameInit ==
    /\ operands = Catalog
    /\ pc = "name"
    /\ operand \in NameOperands
    /\ name = <<>> /\ rename = <<>>
    /\ instruction = <<>> /\ cpp_params = <<>> /\ function_text = ""
    /\ operand_kind = "" /\ cpp_type = <<>>
    /\ grammar = <<>> /\ pending = <<>> /\ generated = <<>> /\ file = ""

DeriveName ==
    /\ pc = "name"
    /\ name' = get_cpp_param_name(operand)
    /\ pc' = "named"
    /\ UNCHANGED <<operands, operand, rename, instruction, cpp_params,
                   function_text, operand_kind, cpp_type, grammar, pending,
                   generated, file>>

DeriveAgain ==
    /\ pc = "named"
    /\ name.ok
    /\ rename' = get_cpp_param_name([kind |-> operand.kind, name |-> name.val])
    /\ pc' = "renamed"
    /\ UNCHANGED <<operands, operand, name, instruction, cpp_params,
                   function_text, operand_kind, cpp_type, grammar, pending,
                   generated, file>>

NameNext == DeriveName \/ DeriveAgain

SpecName == NameInit /\ [][NameNext]_vars

----------------------------------------------------------------------------
(* get_instruction_code, stepped through its passes. *)

EmitOperands ==
    {[kind |-> "IdRef", name |-> "ab"],
     [kind |-> "IdRef", name |-> "ab1"],
     [kind |-> "IdRef", quantifier |-> "?", name |-> "ab"],
     [kind |-> "LiteralString", name |-> ""],
     [kind |-> "PairLiteralIntegerIdRef", quantifier |-> "*"],
     [kind |-> "LiteralInteger"],
     [kind |-> "IdRef", quantifier |-> "+"]}

EmitInstructions ==
    {[opname |-> "OpNop"]}
    \cup {[opname |-> "OpExtInst", operands |-> ops] :
            ops \in SeqsUpTo(EmitOperands, MaxOperands)}

EmitInit ==
    /\ operands = Catalog
    /\ pc = "emit"
    /\ instruction \in EmitInstructions
    /\ cpp_params = <<>> /\ function_text = ""
    /\ operand = <<>> /\ name = <<>> /\ rename = <<>>
    /\ operand_kind = "" /\ cpp_type = <<>>
    /\ grammar = <<>> /\ pending = <<>> /\ generated = <<>> /\ file = ""

\* the list is bound, or the exception leaves the function
BindParams(built) ==
    IF built.ok
    THEN cpp_params' = built.val /\ pc' = "params"
    ELSE cpp_params' = <<>> /\ pc' = "raised"

\* lines 162-168; an operand that cannot be typed or named raises
BuildParams ==
    /\ pc = "emit"
    /\ BindParams(build_params(instruction))
    /\ UNCHANGED <<operands, operand, name, rename, instruction,
                   function_text, operand_kind, cpp_type, grammar, pending,
                   generated, file>>

\* lines 170-180
Deduplicate ==
    /\ pc = "params"
    /\ cpp_params' = deduplicate(cpp_params)
    /\ pc' = "deduplicated"
    /\ UNCHANGED <<operands, operand, name, rename, instruction,
                   function_text, operand_kind, cpp_type, grammar, pending,
                   generated, file>>

\* lines 182-186
AssignDefaults ==
    /\ pc = "deduplicated"
    /\ cpp_params' = assign_defaults(cpp_params)
    /\ pc' = "defaulted"
    /\ UNCHANGED <<operands, operand, name, rename, instruction,
                   function_text, operand_kind, cpp_type, grammar, pending,
                   generated, file>>

\* lines 188-215
RenderFunction ==
    /\ pc = "defaulted"
    /\ function_text' = render_function(instruction, cpp_params)
    /\ pc' = "emitted"
    /\ UNCHANGED <<operands, operand, name, rename, instruction, cpp_params,
                   operand_kind, cpp_type, grammar, pending, generated, file>>

EmitNext == BuildParams \/ Deduplicate \/ AssignDefaults \/ RenderFunction

SpecEmit == EmitInit /\ [][EmitNext]_vars

----------------------------------------------------------------------------
(* Type resolution over the catalogs of a grammar: the kinds of Catalog    *)
(* and two composite kinds whose bases vary.                               *)

LeafKinds == {"IdRef", "LiteralInteger", "ImageOperands"}

TypeCatalogs ==
    {Catalog
     @@ ("Pair" :> [kind |-> "Pair", category |-> "Composite", bases |-> b1])
     @@ ("Nested" :> [kind |-> "Nested", category |-> "Composite",
                      bases |-> b2]) :
        b1 \in SeqsUpTo(LeafKinds, MaxBases),
        b2 \in SeqsUpTo(LeafKinds \cup {"Pair", "Missing"}, MaxBases)}

TypeInit ==
    /\ operands \in TypeCatalogs
    /\ pc = "type"
    /\ operand_kind = "" /\ cpp_type = <<>>
    /\ operand = <<>> /\ name = <<>> /\ rename = <<>>
    /\ instruction = <<>> /\ cpp_params = <<>> /\ function_text = ""
    /\ grammar = <<>> /\ pending = <<>> /\ generated = <<>> /\ file = ""

ResolveKind ==
    /\ pc = "type"
    /\ \E kind \in DOMAIN operands \cup {"Missing"} :
          /\ operand_kind' = kind
          /\ cpp_type' = get_base_cpp_type(kind)
    /\ pc' = "resolved"
    /\ UNCHANGED <<operands, operand, name, rename, instruction, cpp_params,
                   function_text, grammar, pending, generated, file>>

TypeNext == ResolveKind

SpecType == TypeInit /\ [][TypeNext]_vars

----------------------------------------------------------------------------
(* The run of the module: lines 227-242. *)

\* the characters of the grammar's names, in code point order
CodePoints ==
    "0123456789ABCDEFGHIJKLMNOPQRSTUVWXYZ_abcdefghijklmnopqrstuvwxyz"

ord(c) == CHOOSE i \in 1..Len(CodePoints) : Ch(CodePoints, i) = c

RECURSIVE str_less(_, _)
\* a < b on strings
str_less(a, b) ==
    IF a = "" THEN b # ""
    ELSE IF b = "" THEN FALSE
    ELSE IF Ch(a, 1) = Ch(b, 1)
         THEN str_less(Slice(a, 2, Len(a)), Slice(b, 2, Len(b)))
    ELSE ord(Ch(a, 1)) < ord(Ch(b, 1))

\* the place sorted() gives item i of a list with these keys: after the
\* smaller keys and after the equal keys that come before it
sorted_place(keys, i) ==
    1 + Cardinality({j \in DOMAIN keys :
                        \/ str_less(keys[j], keys[i])
                        \/ keys[j] = keys[i] /\ j < i})

\* sorted(items, key=...), keys[i] the key of items[i]
sorted(items, keys) ==
    list([p \in DOMAIN items |->
             items[CHOOSE i \in DOMAIN items : sorted_place(keys, i) = p]])

\* a set of strings as a list, in some order
RECURSIVE as_list(_)
as_list(S) == IF S = {} THEN <<>> ELSE <<the(S)>> \o as_list(S \ {the(S)})

\* lines 218-224, from the catalog the operand kinds were put into
get_spv_ids_types ==
    join("\n", list([i \in 1..Cardinality({k \in DOMAIN operands :
                                              operands[k].category = "Id"}) |->
        "using "
        \o sorted(as_list({k \in DOMAIN operands :
                              operands[k].category = "Id"}),
                  as_list({k \in DOMAIN operands :
                              operands[k].category = "Id"}))[i]
        \o " = spv::Id;"]))

RECURSIVE replace(_, _, _)
\* the occurrence of old at i replaced, then those of the rest
replace_at(s, i, old, new) ==
    IF i = 0 THEN s
    ELSE Slice(s, 1, i - 1) \o new
         \o replace(Slice(s, i + Len(old), Len(s)), old, new)

\* s.replace(old, new)
replace(s, old, new) ==
    replace_at(s, least({i \in 1..Len(s) :
                            Slice(s, i, i + Len(old) - 1) = old}), old, new)

\* dynspv.hpp_template, as lines 229-230 read it
lib_core_content ==
    "#pragma once\n#generated_spv_id_types\nstruct Builder {#generated_code\n};\n"

\* lines 238-242: what file.write is given
written_text(instructions_text) ==
    replace(replace(replace(lib_core_content,
                            "#generated_code", instructions_text),
                    "#generated_spv_id_types", get_spv_ids_types),
            "#generated_code", instructions_text)

\* what a run before this one left in include/dynspv.hpp
StaleText == "#pragma once\nstruct Builder {};\n"

RunInstructions ==
    {[opname |-> "OpNop"],
     [opname |-> "OpTypeStruct",
      operands |-> <<[kind |-> "IdResult"],
                     [kind |-> "IdRef", quantifier |-> "*",
                      name |-> "'Member 0 type', +\n'member 1 type', +\n..."]>>],
     [opname |-> "OpDecorate",
      operands |-> <<[kind |-> "IdRef", name |-> "'Target'"],
                     [kind |-> "LiteralString", name |-> "'Name'"]>>],
     [opname |-> "OpGroupAdd",
      operands |-> <<[kind |-> "IdRef", name |-> "'X'"],
                     [kind |-> "IdScope"]>>],
     [opname |-> "OpExtInst",
      operands |-> <<[kind |-> "IdRef", name |-> "'Set'"],
                     [kind |-> "IdRef", name |-> "a b ..."]>>],
     [opname |-> "OpConstant",
      operands |-> <<[kind |-> "LiteralUnknown", name |-> "'Value'"]>>],
     [opname |-> "OpLoad",
      operands |-> <<[kind |-> "IdRef", quantifier |-> "+"]>>],
     [opname |-> "OpTypeOpaque",
      operands |-> <<[kind |-> "Opaque"]>>]}

RunInit ==
    /\ operands = Catalog
    /\ pc = "run"
    /\ grammar \in SeqsUpTo(RunInstructions, MaxInstructions)
    /\ file \in {"", StaleText}
    /\ pending = <<>> /\ generated = <<>>
    /\ operand = <<>> /\ name = <<>> /\ rename = <<>>
    /\ instruction = <<>> /\ cpp_params = <<>> /\ function_text = ""
    /\ operand_kind = "" /\ cpp_type = <<>>

\* lines 232-235: open(lib_path, "w") empties the file; the map over the
\* sorted instructions is lazy, nothing is generated yet
OpenOutput ==
    /\ pc = "run"
    /\ file' = ""
    /\ pending' = sorted(grammar, list([i \in DOMAIN grammar |->
                                           grammar[i].opname]))
    /\ generated' = <<>>
    /\ pc' = "join"
    /\ UNCHANGED <<operands, operand, name, rename, instruction, cpp_params,
                   function_text, operand_kind, cpp_type, grammar>>

\* the text joins the list and the file as soon as it is generated
KeepGeneratedStreaming(code) ==
    IF code.ok
    THEN /\ generated' = Append(generated, code.val)
         /\ file' = file \o code.val
         /\ pending' = Tail(pending)
         /\ pc' = "join"
    ELSE /\ pc' = "raised"
         /\ UNCHANGED <<generated, pending, file>>

\* the join takes the text, or the exception leaves the with block, which
\* closes the file as it is
KeepGenerated(code) ==
    IF code.ok
    THEN /\ generated' = Append(generated, code.val)
         /\ pending' = Tail(pending)
         /\ pc' = "join"
         /\ UNCHANGED file
    ELSE /\ pc' = "raised"
         /\ UNCHANGED <<generated, pending, file>>

\* line 236: the join draws the next instruction through the lazy map
GenerateInstruction ==
    /\ pc = "join"
    /\ pending # <<>>
    /\ KeepGenerated(get_instruction_code(Head(pending)))
    /\ UNCHANGED <<operands, operand, name, rename, instruction, cpp_params,
                   function_text, operand_kind, cpp_type, grammar>>

\* lines 236-242: the map is exhausted, the text is written
WriteOutput ==
    /\ pc = "join"
    /\ pending = <<>>
    /\ file' = written_text(join("\n", generated))
    /\ pc' = "written"
    /\ UNCHANGED <<operands, operand, name, rename, instruction, cpp_params,
                   function_text, operand_kind, cpp_type, grammar, pending,
                   generated>>

RunNext == OpenOutput \/ GenerateInstruction \/ WriteOutput

SpecRun == RunInit /\ [][RunNext]_vars

----------------------------------------------------------------------------
(* Properties of the deduplication and default passes (SpecEmit). *)

\* the elements of a list
Range(f) == {f[i] : i \in DOMAIN f}

OperandsOf(instr) ==
    IF "operands" \in DOMAIN instr THEN instr.operands ELSE <<>>

\* the names lines 167-168 derive for the instruction, before any renaming
DerivedNames == names_of(build_params(instruction).val)

Renamed == pc \in {"deduplicated", "defaulted", "emitted"}

\* C1: after the deduplication pass the parameter names of the signature
\* are pairwise distinct, whatever the derived names were.
C1_NamesPairwiseDistinct ==
    Renamed =>
        \A i, j \in DOMAIN cpp_params :
            i # j => cpp_params[i].name # cpp_params[j].name

\* the name the k-th occurrence rule gives parameter i
OccurrenceName(derived, i) ==
    IF Cardinality({j \in DOMAIN derived : derived[j] = derived[i]}) > 1
    THEN derived[i]
         \o str(Cardinality({j \in 1..i : derived[j] = derived[i]}))
    ELSE derived[i]

FollowsOccurrenceRule(derived) ==
    \A i \in DOMAIN cpp_params : cpp_params[i].name = OccurrenceName(derived, i)

\* C9: a derived name that occurs more than once has its k-th occurrence
\* renamed to the name followed by k, and a name that occurs once is kept.
C9_KthOccurrenceGetsIndexK == Renamed => FollowsOccurrenceRule(DerivedNames)

\* the operand is marked optional or repeated in the grammar
Quantified(op) == "quantifier" \in DOMAIN op /\ op.quantifier \in {"?", "*"}

endswith(s, suffix) ==
    Len(s) >= Len(suffix)
    /\ Slice(s, Len(s) - Len(suffix) + 1, Len(s)) = suffix

\* parameter i is rendered with a default value in the signature
HasDefault(i) == endswith(get_param_def(cpp_params[i]), " = {}")

\* C2: a parameter carries a default exactly when it and every parameter
\* after it is optional or repeated, so no default precedes a non-default.
C2_DefaultsAreTheTrailingRun ==
    pc \in {"defaulted", "emitted"} =>
        /\ \A i \in DOMAIN cpp_params :
              HasDefault(i) <=>
                  \A j \in i..Len(cpp_params) :
                      Quantified(OperandsOf(instruction)[j])
        /\ \A i, j \in DOMAIN cpp_params :
              i < j /\ HasDefault(i) => HasDefault(j)

\* an emitted signature with an optional parameter before a plain one and a
\* repeated parameter after it
C2_Witness ==
    /\ pc = "emitted"
    /\ \E i, j, k \in DOMAIN cpp_params :
          /\ i < j /\ j < k
          /\ Quantified(OperandsOf(instruction)[i])
          /\ ~Quantified(OperandsOf(instruction)[j])
          /\ Quantified(OperandsOf(instruction)[k])

\* the operand takes one word: an Id, an enum, or a literal that is neither
\* a string nor the generic number, and not optional or repeated
SimpleOperand(op) ==
    /\ "quantifier" \notin DOMAIN op
    /\ \/ operands[op.kind].category \in {"Id", "ValueEnum", "BitEnum"}
       \/ /\ operands[op.kind].category = "Literal"
          /\ op.kind \notin {"LiteralString", "LiteralContextDependentNumber"}

\* the names of the parameters whose operand is not simple, in declared order
NonSimpleNames(ops) ==
    names_of(SelectSeq(
        list([i \in DOMAIN ops |-> [name |-> cpp_params[i].name,
                                    simple |-> SimpleOperand(ops[i])]]),
        LAMBDA x : ~x.simple))

WordCountAccounts(ops, code) ==
    /\ startswith(code, "uint16_t wordCount = "
          \o str(1 + Cardinality({i \in DOMAIN ops : SimpleOperand(ops[i])}))
          \o ";")
    /\ Contains(code, "countOperandsWord(")
          <=> \E i \in DOMAIN ops : ~SimpleOperand(ops[i])
    /\ Contains(code, "countOperandsWord(")
          => endswith(code, "countOperandsWord(wordCount,"
                 \o join(", ", NonSimpleNames(ops)) \o ");")

\* C4: the fixed word count is 1 plus the number of simple parameters, and
\* the countOperandsWord call is emitted exactly when some parameter is not
\* simple, naming those parameters once each in declared order.
C4_WordCountAccountsForEveryParameter ==
    pc = "emitted" =>
        WordCountAccounts(OperandsOf(instruction),
                          get_word_count_code(cpp_params))

----------------------------------------------------------------------------
(* Properties of name derivation (SpecName). *)

Named == "name" \in DOMAIN operand

OnlyWordChars(s) == \A i \in 1..Len(s) : Ch(s, i) \in WordSet

NoLowerCase(s) == \A i \in 1..Len(s) : Ch(s, i) \notin LowerSet

LowerFirst(s) == lower(Ch(s, 1)) \o Slice(s, 2, Len(s))

\* C3: the identifier get_cpp_param_name returns is never a reserved
\* keyword, for a named operand and for one that falls back to its kind.
C3_NeverAReservedKeyword ==
    pc = "named" /\ name.ok => name.val \notin reserved_cpp_keywords

CharOrNone(s, i) == IF i = 0 THEN "" ELSE Ch(s, i)

FirstWordChar(s) ==
    CharOrNone(s, least({i \in 1..Len(s) : Ch(s, i) \in WordSet}))

NormalizedIdentifier(s) ==
    OnlyWordChars(s) /\ LowerFirst(s) \notin reserved_cpp_keywords

\* C8 as claimed: a normalized identifier comes back unchanged except that
\* its first letter is lowered, and deriving again changes nothing.
C8_IdentifierKeptFirstLetterLowered ==
    pc \in {"named", "renamed"} /\ Named /\ NormalizedIdentifier(operand.name)
    =>  /\ name.ok
        /\ name.val = LowerFirst(operand.name)
        /\ pc = "renamed" => rename = name

\* C8, amended: a normalized identifier comes back unchanged except for the
\* case of its first letter, which is lowered, or raised when no later
\* character of the identifier is a lower-case letter; deriving again from
\* the result returns the result.
C8_IdentifierKeptUpToFirstLetterCase ==
    pc \in {"named", "renamed"} /\ Named /\ NormalizedIdentifier(operand.name)
    =>  /\ name.ok
        /\ Len(name.val) = Len(operand.name)
        /\ Slice(name.val, 2, Len(name.val))
              = Slice(operand.name, 2, Len(operand.name))
        /\ lower(Ch(name.val, 1)) = lower(Ch(operand.name, 1))
        /\ Ch(name.val, 1) \in UpperSet <=>
              /\ Ch(operand.name, 1) \in LowerSet \cup UpperSet
              /\ NoLowerCase(Slice(operand.name, 2, Len(operand.name)))
        /\ pc = "renamed" => rename = name

\* an identifier whose first letter was raised, derived a second time
C8_Witness ==
    /\ pc = "renamed" /\ Named /\ NormalizedIdentifier(operand.name)
    /\ Len(operand.name) > 1
    /\ Ch(operand.name, 1) \in LowerSet
    /\ Ch(name.val, 1) \in UpperSet

\* lines 97-103 are reached with the raw name: it holds "...", and neither
\* the multi-line nor the quoted comma-joined pattern rewrote it
BareEllipsis(n) ==
    Contains(n, "...") /\ ~Contains(n, "\n") /\ ~match_group(n)

RECURSIVE WithoutTrailingDigits(_)
WithoutTrailingDigits(t) ==
    IF t # "" /\ Ch(t, Len(t)) \in DigitSet
    THEN WithoutTrailingDigits(Slice(t, 1, Len(t) - 1))
    ELSE t

RECURSIVE WithoutDigits(_)
WithoutDigits(t) ==
    IF t = "" THEN ""
    ELSE WithoutDigits(Slice(t, 1, Len(t) - 1))
         \o (IF Ch(t, Len(t)) \in DigitSet THEN "" ELSE Ch(t, Len(t)))

\* C10 as claimed, bases the tokens with their trailing digits stripped:
\* one base gives base + "s" with the first letter lowered, several abort.
TrailingStrippedOutcome(bases) ==
    /\ Cardinality(bases) = 1 =>
          name = Ok(LowerFirst(the(bases) \o "s"))
    /\ Cardinality(bases) > 1 => name = Raise("AssertionError")

\* C10: on the bare-ellipsis path each token has only its trailing digits
\* stripped; one distinct base gives the base with "s" appended, more than
\* one aborts with an assertion failure.
C10_TrailingDigitsStripped ==
    pc = "named" /\ Named /\ BareEllipsis(operand.name) =>
        TrailingStrippedOutcome(
            {WithoutTrailingDigits(t) : t \in Range(findall_words(operand.name))})

AllStrippedOutcome(bases) ==
    /\ Cardinality(bases) = 1 =>
          name = Ok(IF the(bases) = "" THEN "S"
                    ELSE IF LowerFirst(the(bases) \o "s")
                               \in reserved_cpp_keywords
                         THEN "_" \o LowerFirst(the(bases) \o "s")
                    ELSE LowerFirst(the(bases) \o "s"))
    /\ Cardinality(bases) # 1 => name = Raise("AssertionError")

\* C10, amended: on the bare-ellipsis path each token has all of its digits
\* removed, not only the trailing ones; exactly one distinct base gives the
\* base with "s" appended and the first letter lowered ("S" for the empty
\* base, "_" put before a reserved word); any other number of distinct
\* bases aborts with an assertion failure.
C10_AllDigitsStripped ==
    pc = "named" /\ Named /\ BareEllipsis(operand.name) =>
        AllStrippedOutcome(
            {WithoutDigits(t) : t \in Range(findall_words(operand.name))})

\* a bare-ellipsis name with a digit inside a token, derived without abort
C10_Witness ==
    /\ pc = "named" /\ Named /\ BareEllipsis(operand.name) /\ name.ok
    /\ \E t \in Range(findall_words(operand.name)) :
          WithoutTrailingDigits(t) # WithoutDigits(t)

----------------------------------------------------------------------------
(* Properties of type resolution (SpecType). *)

\* the angle brackets open before index i of s
Depth(s, i) ==
    Cardinality({j \in 1..i : Ch(s, j) = "<"})
    - Cardinality({j \in 1..i : Ch(s, j) = ">"})

RECURSIVE TopLevelArgs(_)
ArgsFrom(s, comma) ==
    IF comma = 0 THEN <<s>>
    ELSE <<Slice(s, 1, comma - 1)>>
         \o TopLevelArgs(Slice(s, comma + 2, Len(s)))

\* the arguments of a template argument list: the text between the commas
\* that are inside no nested bracket
TopLevelArgs(s) ==
    IF s = "" THEN <<>>
    ELSE ArgsFrom(s, least({i \in 1..Len(s) :
                               Slice(s, i, i + 1) = ", " /\ Depth(s, i) = 0}))

IsTupleOver(t, components) ==
    /\ startswith(t, "std::tuple<")
    /\ endswith(t, ">")
    /\ TopLevelArgs(Slice(t, Len("std::tuple<") + 1, Len(t) - 1)) = components

\* C7: a Composite kind whose bases resolve yields a tuple type with one
\* component per declared base, the i-th being the resolution of the i-th
\* base, also when a base is itself a Composite.
C7_TupleOfResolvedBasesInOrder ==
    /\ pc = "resolved"
    /\ operand_kind \in DOMAIN operands
    /\ operands[operand_kind].category = "Composite"
    /\ \A b \in Range(operands[operand_kind].bases) :
          get_base_cpp_type(b).ok
    =>  /\ cpp_type.ok
        /\ IsTupleOver(cpp_type.val,
              list([i \in DOMAIN operands[operand_kind].bases |->
                       get_base_cpp_type(operands[operand_kind].bases[i]).val]))

\* a composite with a composite base of two components has been resolved
C7_Witness ==
    /\ pc = "resolved" /\ operand_kind = "Nested" /\ cpp_type.ok
    /\ Len(operands["Nested"].bases) = 2
    /\ operands["Nested"].bases[1] = "Pair"
    /\ Len(operands["Pair"].bases) = 2
    /\ operands["Pair"].bases[1] # operands["Pair"].bases[2]

----------------------------------------------------------------------------
(* Properties of the run (SpecRun). *)

\* C5: when an instruction cannot be generated the run aborts with nothing
\* written: the output never holds the functions of some instructions only,
\* and it is written only when every instruction was generated.
C5_AbortLeavesNoFunctionText ==
    /\ pc = "raised" =>
          /\ file = ""
          /\ \E i \in DOMAIN grammar : ~get_instruction_code(grammar[i]).ok
    /\ (\E i \in DOMAIN generated : Contains(file, generated[i])) =>
          /\ pc = "written"
          /\ Len(generated) = Len(grammar)
          /\ \A i \in DOMAIN generated : Contains(file, generated[i])
    /\ pc = "written" =>
          \A i \in DOMAIN grammar : get_instruction_code(grammar[i]).ok

\* the run aborted after the function of an earlier instruction was made
C5_Witness == pc = "raised" /\ generated # <<>> /\ file = ""

====
